---- MODULE Spec2Model ----
(***************************************************************************)
(* A model of src/src/utils/renderer.js: the token tracker, the screenshot *)
(* capture pipeline (throttle gate, lazy video initialisation, frame-diff  *)
(* gate, encoding, transmission), the audio chunk drain loops and the      *)
(* capture session's start and stop.                                       *)
(*                                                                         *)
(* JavaScript runs one handler at a time; a handler gives up control only  *)
(* at an await or when it registers a callback.  Each action below is one  *)
(* such run-to-completion segment of a handler.                            *)
(***************************************************************************)
EXTENDS Integers, Sequences, FiniteSets, TLC

\* ---------------------------------------------------------------- bounds
\* Number of clock advances in one behaviour.
MaxTicks == 3
\* Number of token events pushed between two reset() calls.
MaxEvents == 2

\* ------------------------------------------------------ program constants
MIN_SEND_INTERVAL_MS == 1500
DEFAULT_MAX_TOKENS_PER_MIN == 1000000
DEFAULT_THROTTLE_AT_PERCENT == 75
TOKENS_PER_TILE == 258
SMALL_IMAGE_MAX == 384
TILE_SIZE == 768
AUDIO_TOKENS_PER_SECOND == 32

\* 60 * 1000, the width of the sliding window of cleanOldTokens.
WindowMs == 60 * 1000

\* Date.now() at the moment the renderer is loaded (any positive instant
\* later than one window and one minimum send interval after the epoch).
Epoch == 2 * WindowMs

\* JavaScript's null / 0 / "falsy" handle.
NULL == 0

\* ------------------------------------------------------------- variables
VARIABLES
    now,            \* Date.now(), in milliseconds
    ticks,          \* number of clock advances so far
    tokenTracker,   \* [tokens, audioStartTime]: the tokenTracker object
    localStorage,   \* the three rate-limit settings read by shouldThrottle
    settings,       \* history: the numbers the user entered in the settings
    events,         \* history: every token event ever pushed since reset()
    ret,            \* history: the last tracker or sendTextMessage call, its
                    \* arguments (width, height, text), what it returned and
                    \* whether it invoked the host process;
                    \* fresh: reset() was called and nothing was emitted since;
                    \* audioFresh: reset() was called and trackAudioTokens()
                    \* was not called since; held: what the last reset() found
    platform,       \* process.platform: "darwin", "linux" or "win32"
    mediaStream,    \* the display stream (its id) or NULL
    screenshotInterval, \* id of the interval timer stopCapture would clear
    audioContext,   \* the Windows loopback AudioContext (its id) or NULL
    audioProcessor, \* the ScriptProcessor stopCapture would disconnect
    hiddenVideo,    \* the hidden <video>: [id, srcObject], or NoVideo
    videoReady,     \* hiddenVideo.readyState >= 2
    offscreenCanvas,  \* <<width, height>> of the canvas, <<>> when null
    offscreenContext, \* TRUE when the 2d context is set
    diffCanvas,     \* TRUE once the diff canvas and context exist
    lastSentDiffData, \* the down-scaled frame last recorded as sent, or NULL
    lastScreenshotSentTime,
    status,         \* what cheddar.setStatus was last called with
    intervals,      \* the armed setInterval timers
    timeouts,       \* the pending setTimeout callbacks
    startCall,      \* the startCapture call in flight, or its pc "idle"
    nStarts,        \* number of startCapture calls so far
    cap,            \* the captureScreenshot calls in flight, by slot
    nCaps,          \* number of captureScreenshot calls so far
    ev,             \* history: what the last step did to a capture call
    resources,      \* the host's live tracks, open contexts, connected nodes
    audio,          \* per processor: the closure's audioBuffer, the drain
                    \* loops suspended on a send, the input frames received
                    \* the chunks handed to 'send-audio-content' and whether
                    \* one of these invokes was rejected (history)
    hist            \* history: facts about the session the claims refer to

trackerVars == <<tokenTracker, events, ret>>
configVars == <<localStorage, settings>>
clockVars == <<now, ticks>>
timerVars == <<intervals, timeouts>>
mediaVars == <<mediaStream, screenshotInterval, audioContext, audioProcessor, resources>>
videoVars == <<hiddenVideo, videoReady, offscreenCanvas, offscreenContext>>
diffVars == <<diffCanvas, lastSentDiffData>>
captureVars == <<cap, nCaps>>
startVars == <<startCall, nStarts>>
sessionVars ==
    <<platform, mediaVars, videoVars, diffVars, lastScreenshotSentTime, status,
      timerVars, startVars, captureVars, ev, audio, hist>>
vars == <<now, ticks, tokenTracker, localStorage, settings, events, ret, sessionVars>>

\* ----------------------------------------------------- pure helper maths
RECURSIVE SumCounts(_)
SumCounts(s) == IF s = <<>> THEN 0 ELSE Head(s).count + SumCounts(Tail(s))

\* Math.ceil(a / b) for a >= 0, b > 0.
CeilDiv(a, b) == (a + b - 1) \div b

\* A decimal digit character's value; -1 for any other character.
DigitValue(c) ==
    CASE c = "0" -> 0 [] c = "1" -> 1 [] c = "2" -> 2 [] c = "3" -> 3
      [] c = "4" -> 4 [] c = "5" -> 5 [] c = "6" -> 6 [] c = "7" -> 7
      [] c = "8" -> 8 [] c = "9" -> 9 [] OTHER -> -1

\* parseInt(s, 10) of a string that starts with a digit: the digits up to
\* the first character that is no digit.
RECURSIVE ParseIntFrom(_, _)
ParseIntFrom(s, acc) ==
    IF s = <<>> \/ DigitValue(Head(s)) < 0 THEN acc
    ELSE ParseIntFrom(Tail(s), acc * 10 + DigitValue(Head(s)))

parseInt(s) == ParseIntFrom(s, 0)

\* String(n) for n >= 0, as the settings page stores a number.
DigitChar(d) ==
    CASE d = 0 -> "0" [] d = 1 -> "1" [] d = 2 -> "2" [] d = 3 -> "3"
      [] d = 4 -> "4" [] d = 5 -> "5" [] d = 6 -> "6" [] d = 7 -> "7"
      [] d = 8 -> "8" [] OTHER -> "9"

RECURSIVE NumberToString(_)
NumberToString(n) ==
    IF n < 10 THEN <<DigitChar(n)>>
    ELSE Append(NumberToString(n \div 10), DigitChar(n % 10))

\* ----------------------------------------------------------- tokenTracker
TokenEvent(t, count, type) == [timestamp |-> t, count |-> count, type |-> type]

cleanOldTokens(toks, t) ==
    SelectSeq(toks, LAMBDA token : token.timestamp > t - WindowMs)

addTokens(tr, count, type, t) ==
    [tr EXCEPT !.tokens = cleanOldTokens(Append(tr.tokens, TokenEvent(t, count, type)), t)]

\* A slip: one small dimension taken for a small image.
calculateImageTokensEitherSmall(width, height) ==
    IF width <= SMALL_IMAGE_MAX \/ height <= SMALL_IMAGE_MAX THEN TOKENS_PER_TILE
    ELSE CeilDiv(width, TILE_SIZE) * CeilDiv(height, TILE_SIZE) * TOKENS_PER_TILE

calculateImageTokens(width, height) ==
    IF width <= SMALL_IMAGE_MAX /\ height <= SMALL_IMAGE_MAX
    THEN TOKENS_PER_TILE
    ELSE CeilDiv(width, TILE_SIZE) * CeilDiv(height, TILE_SIZE) * TOKENS_PER_TILE

\* Math.floor(elapsedSeconds * 32), elapsedSeconds = (now - audioStartTime) / 1000.
AudioTokens(tr, t) == ((t - tr.audioStartTime) * AUDIO_TOKENS_PER_SECOND) \div 1000

\* A slip: the audio window start moved on every call.
trackAudioTokensRestarting(tr, t) ==
    IF tr.audioStartTime = NULL
    THEN [tr EXCEPT !.audioStartTime = t]
    ELSE IF AudioTokens(tr, t) > 0
         THEN [addTokens(tr, AudioTokens(tr, t), "audio", t) EXCEPT !.audioStartTime = t]
         ELSE [tr EXCEPT !.audioStartTime = t]

trackAudioTokens(tr, t) ==
    IF tr.audioStartTime = NULL
    THEN [tr EXCEPT !.audioStartTime = t]
    ELSE IF AudioTokens(tr, t) > 0
         THEN [addTokens(tr, AudioTokens(tr, t), "audio", t) EXCEPT !.audioStartTime = t]
         ELSE tr

\* getTokensInLastMinute() purges and then sums: the tracker after the call
\* and the value returned.
TrackerAfterQuery(tr, t) == [tr EXCEPT !.tokens = cleanOldTokens(tr.tokens, t)]
getTokensInLastMinute(tr, t) == SumCounts(cleanOldTokens(tr.tokens, t))

\* localStorage.getItem(k) || dflt, parsed.
ItemOr(item, dflt) == IF item = <<>> THEN dflt ELSE parseInt(item)

throttleThreshold(ls) ==
    (ItemOr(ls.maxTokensPerMin, DEFAULT_MAX_TOKENS_PER_MIN)
        * ItemOr(ls.throttleAtPercent, DEFAULT_THROTTLE_AT_PERCENT)) \div 100

\* A slip: the comparison written as "more than the threshold".
shouldThrottleStrict(tr, ls, t) ==
    IF ls.throttleTokens # "true" THEN FALSE
    ELSE getTokensInLastMinute(tr, t) > throttleThreshold(ls)

shouldThrottle(tr, ls, t) ==
    IF ls.throttleTokens # "true" THEN FALSE
    ELSE getTokensInLastMinute(tr, t) >= throttleThreshold(ls)

\* A slip: the throttle check emptying the token list.
TrackerAfterThrottleCleared(tr, ls, t) == [tr EXCEPT !.tokens = <<>>]

\* shouldThrottle() returns before it queries when throttling is disabled.
TrackerAfterThrottle(tr, ls, t) ==
    IF ls.throttleTokens # "true" THEN tr ELSE TrackerAfterQuery(tr, t)

\* A slip: reset() that leaves the audio window start.
resetTokensOnly(tr) == [tr EXCEPT !.tokens = <<>>]

reset(tr) == [tr EXCEPT !.tokens = <<>>, !.audioStartTime = NULL]

\* ------------------------------------------------- settings (localStorage)
\* What the settings page can have stored: a key that was never written
\* reads as null (here <<>>), a written number as its decimal string.
UNSET == -1
StoredNumber(n) == IF n = UNSET THEN <<>> ELSE NumberToString(n)

Setting(enabled, max, percent) ==
    [throttleTokens |-> enabled, maxTokensPerMin |-> max, throttleAtPercent |-> percent]

StorageOf(s) ==
    [throttleTokens |-> s.throttleTokens,
     maxTokensPerMin |-> StoredNumber(s.maxTokensPerMin),
     throttleAtPercent |-> StoredNumber(s.throttleAtPercent)]

\* throttleTokens is "true", "false" or was never written ("unset").  With
\* 345 and the default 75 % the threshold is floor(258.75) = 258, one small
\* image; with 2580 and 50 % it is 1290, a small and an 800 x 800 image.
AllSettings ==
    {Setting("unset", UNSET, UNSET), Setting("false", 345, UNSET),
     Setting("true", 345, UNSET), Setting("true", 2580, 50),
     Setting("true", UNSET, UNSET)}

\* Frame sizes the display stream can deliver (width, height).
Dims == {<<384, 384>>, <<800, 800>>}

\* =========================================================== capture session
\* ------------------------------------------------------------------ bounds
\* Number of startCapture calls in one behaviour.
MaxStarts == 2
\* Number of captureScreenshot calls in one behaviour.
MaxCaptures == 2
\* Number of onaudioprocess callbacks in one behaviour.
MaxAudioFrames == 3
\* Number of clock advances (of TickMs each) in one behaviour of the session.
MaxSessionTicks == 3

\* ------------------------------------------------------- program constants
SAMPLE_RATE == 24000
BUFFER_SIZE == 4096
DIFF_CANVAS_WIDTH == 160
DIFF_CANVAS_HEIGHT == 90
SCREEN_CHANGE_THRESHOLD_PERCENT == 5
CHANNEL_TOLERANCE == 10
FIRST_CAPTURE_DELAY_MS == 1500

\* SAMPLE_RATE * AUDIO_CHUNK_DURATION, AUDIO_CHUNK_DURATION = 0.1 s.
samplesPerChunk == SAMPLE_RATE \div 10

\* The session's clock advances in steps of 500 ms.
TickMs == MIN_SEND_INTERVAL_MS \div 3

Platforms == {"darwin", "linux", "win32"}
CapIds == 1..MaxCaptures
StartIds == 1..MaxStarts

\* ------------------------------------------------- frames and their diffing
\* The 160 x 90 diff canvas is modelled by DiffCells cells, each standing for
\* an equal share of its 14400 pixels; a cell is one <<r, g, b>> value.
totalPixels == DIFF_CANVAS_WIDTH * DIFF_CANVAS_HEIGHT
DiffCells == DIFF_CANVAS_WIDTH \div 4
PixelsPerCell == totalPixels \div DiffCells

\* Screen contents: frame 1; frame 2 differs from it in 2.5 % of the pixels;
\* frame 3 differs from it in 5 % of the pixels.  Captures find 1 or 2.
Frames == {1, 2}
FramePixels(f) ==
    [i \in 1..DiffCells |->
        IF f = 2 /\ i = 1 THEN <<11, 0, 0>>
        ELSE IF f = 3 /\ i <= 2 THEN <<0, 0, 200>>
        ELSE <<0, 0, 0>>]

AbsDiff(a, b) == IF a >= b THEN a - b ELSE b - a

PixelChanged(p, q) ==
    \/ AbsDiff(p[1], q[1]) > CHANNEL_TOLERANCE
    \/ AbsDiff(p[2], q[2]) > CHANNEL_TOLERANCE
    \/ AbsDiff(p[3], q[3]) > CHANNEL_TOLERANCE

changedPixels(f, g) ==
    PixelsPerCell *
        Cardinality({i \in 1..DiffCells : PixelChanged(FramePixels(f)[i], FramePixels(g)[i])})

\* changeRatio < SCREEN_CHANGE_THRESHOLD, with changeRatio = changedPixels / totalPixels.
ChangeBelowThreshold(f, g) ==
    changedPixels(f, g) * 100 < SCREEN_CHANGE_THRESHOLD_PERCENT * totalPixels

\* ------------------------------------------ startCapture's interval argument
\* Strings are sequences of characters.
STR_manual == <<"m", "a", "n", "u", "a", "l">>
STR_Manual == <<"M", "a", "n", "u", "a", "l">>
IntervalArgs == {STR_manual, <<"1">>}

IsManualMode(arg) == arg = STR_manual \/ arg = STR_Manual
intervalMilliseconds(arg) == parseInt(arg) * 1000

\* -------------------------------------------------- captureScreenshot calls
\* A call in flight occupies a slot of cap.  pc: the await or callback it is
\* suspended at ("play", "encode", "send"; "idle": a free slot).  frame, dims:
\* the frame it drew and the size of the canvas then.  duplicate (history):
\* that frame had 0 changed pixels against the frame of the session's last
\* transmitted automated capture.
IdleCap ==
    [pc |-> "idle", isManual |-> FALSE, frame |-> NULL, dims |-> <<>>,
     duplicate |-> FALSE]

\* ev (history) is what the last step did to a captureScreenshot call: the
\* segment that ran (op), the call's slot, whether it is manual, how the
\* segment ended, and what 'send-image-content' answered.  For a stopCapture
\* step: op "stop", outcome the host call it made ("stopMacAudio" or "none"),
\* result whether it found anything to release.
NoEvent == [op |-> "none", c |-> 0, manual |-> FALSE, outcome |-> "none", result |-> "none"]
Event(op, c, manual, outcome) ==
    [op |-> op, c |-> c, manual |-> manual, outcome |-> outcome, result |-> "none"]

\* hiddenVideo: the call that created the element and the stream it plays.
NoVideo == [id |-> NULL, srcObject |-> NULL]

\* videoWidth and videoHeight of a video that plays stream id: the first
\* display stream of a behaviour is 384 x 384 (258 tokens an image), the
\* second 800 x 800 (1032 tokens an image), ...
VideoSize(id) == IF id % 2 = 1 THEN <<384, 384>> ELSE <<800, 800>>

\* The free slot a new call takes.
FreeSlot == CHOOSE c \in CapIds : cap[c].pc = "idle" /\ \A d \in CapIds : cap[d].pc = "idle" => c <= d

\* The tokens the history says are live, against the configured threshold.
ConfiguredMax ==
    IF settings.maxTokensPerMin = UNSET THEN DEFAULT_MAX_TOKENS_PER_MIN
    ELSE settings.maxTokensPerMin
ConfiguredPercent ==
    IF settings.throttleAtPercent = UNSET THEN DEFAULT_THROTTLE_AT_PERCENT
    ELSE settings.throttleAtPercent
ConfiguredThreshold == (ConfiguredMax * ConfiguredPercent) \div 100
LiveEvents(t) == SelectSeq(events, LAMBDA e : t - e.timestamp < WindowMs)
OverBudget(t) ==
    /\ settings.throttleTokens = "true"
    /\ SumCounts(LiveEvents(t)) >= ConfiguredThreshold

\* A slip: the throttle applied to manual captures too.
ThrottleGateForAll(manual) == shouldThrottle(tokenTracker, localStorage, now)
\* A slip: the throttle never applied.
ThrottleGateOff(manual) == FALSE

\* Line 360: !isManual && tokenTracker.shouldThrottle().
ThrottleGate(manual) == ~manual /\ shouldThrottle(tokenTracker, localStorage, now)

\* Lines 472-487: the frame f, drawn on a canvas of size dims, goes to toBlob.
ToBlob(manual, f, dims) ==
    [pc |-> "encode", isManual |-> manual, frame |-> f, dims |-> dims,
     duplicate |-> (~manual /\ hist.lastTxFrame # NULL
                    /\ changedPixels(f, hist.lastTxFrame) = 0)]

\* What lines 385-487 come to: the call's record (IdleCap when it returned or
\* threw), how it ended, and the diff state it leaves.
Grabbed(rec, outcome, lsd, dc) ==
    [cap |-> rec, outcome |-> outcome, lastSentDiffData |-> lsd, diffCanvas |-> dc]

\* A slip: the fingerprint committed by every capture that goes to toBlob.
DiffGateCommitsAll(manual, f, dims) ==
    Grabbed(ToBlob(manual, f, dims), "toBlob", f, diffCanvas)

\* Lines 408-470 for the frame f drawn on a canvas of size dims.
DiffGate(manual, f, dims) ==
    IF manual THEN Grabbed(ToBlob(manual, f, dims), "toBlob", lastSentDiffData, diffCanvas)
    ELSE IF lastSentDiffData # NULL
         THEN IF ChangeBelowThreshold(f, lastSentDiffData)
              THEN Grabbed(IdleCap, "diffSkip", lastSentDiffData, TRUE)
              ELSE IF now - lastScreenshotSentTime < MIN_SEND_INTERVAL_MS
                   THEN Grabbed(IdleCap, "intervalSkip", lastSentDiffData, TRUE)
                   ELSE Grabbed(ToBlob(manual, f, dims), "toBlob", f, TRUE)
         ELSE Grabbed(ToBlob(manual, f, dims), "toBlob", lastSentDiffData, TRUE)

\* Lines 385-487: from the readiness check to toBlob, for a video whose
\* readiness is `ready`, a context that is set or not, a canvas of size dims.
\* A null offscreenContext makes drawImage throw a TypeError.
GrabResults(manual, ready, context, dims) ==
    IF ~ready THEN {Grabbed(IdleCap, "notReady", lastSentDiffData, diffCanvas)}
    ELSE IF ~context THEN {Grabbed(IdleCap, "typeError", lastSentDiffData, diffCanvas)}
    ELSE {DiffGate(manual, f, dims) : f \in Frames}

\* captureScreenshot(imageQuality, isManual) up to its first await or return:
\* lines 355-371, and lines 385-487 when the video exists already.
captureScreenshot(c, manual) ==
    /\ nCaps' = nCaps + 1
    /\ IF mediaStream = NULL
       THEN /\ ev' = Event("capture", c, manual, "noStream")
            /\ UNCHANGED <<cap, tokenTracker, hiddenVideo, videoReady, diffVars>>
       ELSE IF ThrottleGate(manual)
       THEN /\ ev' = Event("capture", c, manual, "throttled")
            /\ tokenTracker' = TrackerAfterThrottle(tokenTracker, localStorage, now)
            /\ UNCHANGED <<cap, hiddenVideo, videoReady, diffVars>>
       ELSE /\ tokenTracker' = IF manual THEN tokenTracker
                               ELSE TrackerAfterThrottle(tokenTracker, localStorage, now)
            /\ IF hiddenVideo = NoVideo
               THEN /\ hiddenVideo' = [id |-> c, srcObject |-> mediaStream]
                    /\ videoReady' = FALSE
                    /\ cap' = [cap EXCEPT ![c] = [IdleCap EXCEPT !.pc = "play", !.isManual = manual]]
                    /\ ev' = Event("capture", c, manual, "awaitPlay")
                    /\ UNCHANGED diffVars
               ELSE /\ UNCHANGED <<hiddenVideo, videoReady>>
                    /\ \E g \in GrabResults(manual, videoReady, offscreenContext, offscreenCanvas) :
                         /\ cap' = [cap EXCEPT ![c] = g.cap]
                         /\ ev' = Event("capture", c, manual, g.outcome)
                         /\ lastSentDiffData' = g.lastSentDiffData
                         /\ diffCanvas' = g.diffCanvas
    /\ UNCHANGED <<offscreenCanvas, offscreenContext, lastScreenshotSentTime, events>>

\* The interval timer of line 281 fires.
IntervalFires ==
    /\ nCaps < MaxCaptures
    /\ \E t \in intervals :
         /\ t.due <= now
         /\ intervals' = (intervals \ {t}) \cup {[t EXCEPT !.due = t.due + t.period]}
         /\ captureScreenshot(FreeSlot, FALSE)
    /\ UNCHANGED <<clockVars, configVars, ret, platform, mediaVars, status,
                   timeouts, startVars, audio, hist>>

\* The delayed first capture of line 284 fires.
TimeoutFires ==
    /\ nCaps < MaxCaptures
    /\ \E t \in timeouts :
         /\ t.due <= now
         /\ timeouts' = timeouts \ {t}
         /\ captureScreenshot(FreeSlot, FALSE)
    /\ UNCHANGED <<clockVars, configVars, ret, platform, mediaVars, status,
                   intervals, startVars, audio, hist>>

\* captureManualScreenshot(): line 530.
captureManualScreenshot ==
    /\ nCaps < MaxCaptures
    /\ captureScreenshot(FreeSlot, TRUE)
    /\ UNCHANGED <<clockVars, configVars, ret, platform, mediaVars, status,
                   timerVars, startVars, audio, hist>>

\* The hidden video reaches readyState >= 2.
VideoLoads ==
    /\ hiddenVideo # NoVideo
    /\ ~videoReady
    /\ videoReady' = TRUE
    /\ ev' = NoEvent
    /\ UNCHANGED <<clockVars, configVars, trackerVars, platform, mediaVars,
                   hiddenVideo, offscreenCanvas, offscreenContext, diffVars,
                   lastScreenshotSentTime, status, timerVars, startVars,
                   captureVars, audio, hist>>

\* `await hiddenVideo.play()` resolves: the video is playing, so the promise of
\* lines 373-376 resolves at once; lines 378-487 follow.
PlayResolves ==
    /\ \E c \in CapIds :
         /\ cap[c].pc = "play"
         /\ hiddenVideo.id = c
         /\ videoReady
         /\ offscreenCanvas' = VideoSize(hiddenVideo.srcObject)
         /\ offscreenContext' = TRUE
         /\ \E g \in GrabResults(cap[c].isManual, TRUE, TRUE,
                                  VideoSize(hiddenVideo.srcObject)) :
              /\ cap' = [cap EXCEPT ![c] = g.cap]
              /\ ev' = Event("play", c, cap[c].isManual, g.outcome)
              /\ lastSentDiffData' = g.lastSentDiffData
              /\ diffCanvas' = g.diffCanvas
    /\ UNCHANGED <<clockVars, configVars, trackerVars, platform, mediaVars,
                   hiddenVideo, videoReady, lastScreenshotSentTime, status,
                   timerVars, startVars, nCaps, audio, hist>>

\* `await hiddenVideo.play()` rejects: stopCapture paused and unloaded the
\* video meanwhile, and the call ends with that exception.
PlayRejects ==
    /\ \E c \in CapIds :
         /\ cap[c].pc = "play"
         /\ hiddenVideo.id # c
         /\ cap' = [cap EXCEPT ![c] = IdleCap]
         /\ ev' = Event("play", c, cap[c].isManual, "playRejected")
    /\ UNCHANGED <<clockVars, configVars, trackerVars, platform, mediaVars,
                   videoVars, diffVars, lastScreenshotSentTime, status,
                   timerVars, startVars, nCaps, audio, hist>>

\* The toBlob callback and the FileReader's onloadend (lines 488-506): with a
\* blob and valid base64 data the image is handed to 'send-image-content'.
\* Neither callback reads or writes the module's state before the invoke.
EncodeDone ==
    /\ \E c \in CapIds, ok \in BOOLEAN :
         /\ cap[c].pc = "encode"
         /\ IF ok
            THEN /\ cap' = [cap EXCEPT ![c] = [cap[c] EXCEPT !.pc = "send", !.frame = NULL,
                                                             !.duplicate = FALSE]]
                 /\ ev' = Event("encode", c, cap[c].isManual, "sending")
                 /\ hist' = IF cap[c].isManual THEN hist
                            ELSE [hist EXCEPT !.lastTxFrame = cap[c].frame,
                                              !.lastAutoSend = now]
            ELSE /\ cap' = [cap EXCEPT ![c] = IdleCap]
                 /\ ev' = Event("encode", c, cap[c].isManual, "encodeFailed")
                 /\ UNCHANGED hist
    /\ UNCHANGED <<clockVars, configVars, trackerVars, platform, mediaVars,
                   videoVars, diffVars, lastScreenshotSentTime, status,
                   timerVars, startVars, nCaps, audio>>

\* A slip: the result's success flag not looked at.
SendSucceededAlways(success) == TRUE

\* Line 508: result.success.
SendSucceeded(success) == success

\* `await ipcRenderer.invoke('send-image-content')` returns: lines 508-518.
\* After stopCapture offscreenCanvas is null and line 510 throws a TypeError.
SendResult ==
    /\ \E c \in CapIds, success \in BOOLEAN :
         /\ cap[c].pc = "send"
         /\ cap' = [cap EXCEPT ![c] = IdleCap]
         /\ LET done(outcome) ==
                    [Event("send", c, cap[c].isManual, outcome) EXCEPT
                        !.result = IF success THEN "success" ELSE "failure"] IN
            IF SendSucceeded(success)
            THEN IF offscreenCanvas = <<>>
                 THEN /\ ev' = done("typeErrorAfterSend")
                      /\ UNCHANGED <<tokenTracker, events, lastScreenshotSentTime>>
                 ELSE LET imageTokens ==
                              calculateImageTokens(offscreenCanvas[1], offscreenCanvas[2]) IN
                      /\ tokenTracker' = addTokens(tokenTracker, imageTokens, "image", now)
                      /\ events' = Append(events, TokenEvent(now, imageTokens, "image"))
                      /\ lastScreenshotSentTime' = now
                      /\ ev' = done("sent")
            ELSE /\ ev' = done("sendFailed")
                 /\ UNCHANGED <<tokenTracker, events, lastScreenshotSentTime>>
    /\ UNCHANGED <<clockVars, configVars, ret, platform, mediaVars, videoVars,
                   diffVars, status, timerVars, startVars, nCaps, audio, hist>>

\* ------------------------------------------------------------ startCapture
IdleStart == [pc |-> "idle", id |-> 0, arg |-> <<>>]

Track(kind, id) == <<kind, id>>

\* Lines 181-213 and 248: up to the first await.
startCapture ==
    /\ startCall.pc = "idle"
    /\ nStarts < MaxStarts
    /\ \E arg \in IntervalArgs :
         startCall' = [pc |-> IF platform = "darwin" THEN "macAudio" ELSE "display",
                       id |-> nStarts + 1, arg |-> arg]
    /\ nStarts' = nStarts + 1
    /\ tokenTracker' = reset(tokenTracker)
    /\ events' = <<>>
    /\ hist' = [hist EXCEPT !.stopped = FALSE, !.mode = "none", !.lastTxFrame = NULL,
                            !.lastAutoSend = NULL]
    /\ ev' = NoEvent
    /\ UNCHANGED <<clockVars, configVars, ret, platform, mediaVars, videoVars,
                   diffVars, lastScreenshotSentTime, status, timerVars,
                   captureVars, audio>>

\* What an acquisition step of startCapture leaves in ev: op "start", the
\* call's id, what was being acquired, and whether that succeeded.
StartEvent(id, what, ok) ==
    [Event("start", id, FALSE, what) EXCEPT !.result = IF ok THEN "success" ELSE "failure"]

\* A slip: a failed acquisition not noticed.
AcquisitionFailedNever(success) == FALSE

\* Lines 189 and 286-289: a rejected getDisplayMedia throws into the catch.
AcquisitionFailed(success) == ~success

\* Lines 195-198: 'start-macos-audio' answers.
StartMacAudioResult ==
    /\ startCall.pc = "macAudio"
    /\ \E success \in BOOLEAN :
         /\ ev' = StartEvent(startCall.id, "macAudio", success)
         /\ IF success
            THEN /\ startCall' = [startCall EXCEPT !.pc = "display"]
                 /\ resources' = [resources EXCEPT !.macAudio = TRUE]
                 /\ UNCHANGED status
            ELSE /\ startCall' = IdleStart
                 /\ status' = "error"
                 /\ UNCHANGED resources
    /\ UNCHANGED <<clockVars, configVars, trackerVars, platform, mediaStream,
                   screenshotInterval, audioContext, audioProcessor, videoVars,
                   diffVars, lastScreenshotSentTime, timerVars, nStarts,
                   captureVars, audio, hist>>

\* Lines 275-285: the timers of a session that is not in manual mode.
ScheduledIntervals(call) ==
    IF IsManualMode(call.arg) THEN intervals
    ELSE intervals \cup {[id |-> call.id, period |-> intervalMilliseconds(call.arg),
                          due |-> now + intervalMilliseconds(call.arg)]}

ScheduledTimeouts(call) ==
    IF IsManualMode(call.arg) THEN timeouts
    ELSE timeouts \cup {[id |-> call.id, due |-> now + FIRST_CAPTURE_DELAY_MS]}

ScheduledHandle(call) ==
    IF IsManualMode(call.arg) THEN screenshotInterval ELSE call.id

Started(call) ==
    [hist EXCEPT !.mode = IF IsManualMode(call.arg) THEN "manual" ELSE "timed"]

\* getDisplayMedia settles.  On macOS lines 201-210 and 269-285 follow, on
\* Windows lines 248-285 with setupWindowsLoopbackProcessing (lines 325-353;
\* createMediaStreamSource throws when the stream carries no audio track),
\* on Linux lines 213-225 up to the await of getUserMedia.
StartDisplayResult ==
    /\ startCall.pc = "display"
    /\ \E success \in BOOLEAN, audioTrack \in BOOLEAN :
         /\ ev' = IF success /\ platform = "win32" /\ ~audioTrack
                  THEN StartEvent(startCall.id, "loopback", FALSE)
                  ELSE StartEvent(startCall.id, "display", success)
         /\ IF AcquisitionFailed(success)
            THEN /\ startCall' = IdleStart
                 /\ status' = "error"
                 /\ UNCHANGED <<mediaVars, intervals, timeouts, audio, hist>>
            ELSE /\ mediaStream' = startCall.id
                 /\ IF platform = "linux"
                    THEN /\ startCall' = [startCall EXCEPT !.pc = "mic"]
                         /\ resources' = [resources EXCEPT
                                            !.tracks = @ \cup {Track("display", startCall.id)}]
                         /\ UNCHANGED <<screenshotInterval, audioContext, audioProcessor,
                                        status, intervals, timeouts, audio, hist>>
                    ELSE IF platform = "win32" /\ ~audioTrack
                    THEN /\ startCall' = IdleStart
                         /\ status' = "error"
                         /\ audioContext' = startCall.id
                         /\ resources' = [resources EXCEPT
                                            !.tracks = @ \cup {Track("display", startCall.id)},
                                            !.contexts = @ \cup {Track("loopback", startCall.id)}]
                         /\ UNCHANGED <<screenshotInterval, audioProcessor, intervals,
                                        timeouts, audio, hist>>
                    ELSE /\ startCall' = IdleStart
                         /\ audioContext' = IF platform = "win32" THEN startCall.id ELSE audioContext
                         /\ audioProcessor' = IF platform = "win32" THEN startCall.id ELSE audioProcessor
                         /\ resources' =
                               IF platform = "win32"
                               THEN [resources EXCEPT
                                       !.tracks = @ \cup {Track("display", startCall.id)},
                                       !.contexts = @ \cup {Track("loopback", startCall.id)},
                                       !.nodes = @ \cup {startCall.id}]
                               ELSE [resources EXCEPT
                                       !.tracks = @ \cup {Track("display", startCall.id)}]
                         /\ audio' = IF platform = "win32"
                                     THEN [audio EXCEPT !.buffer[startCall.id] = <<>>]
                                     ELSE audio
                         /\ screenshotInterval' = ScheduledHandle(startCall)
                         /\ intervals' = ScheduledIntervals(startCall)
                         /\ timeouts' = ScheduledTimeouts(startCall)
                         /\ hist' = Started(startCall)
                         /\ UNCHANGED status
    /\ UNCHANGED <<clockVars, configVars, trackerVars, platform, videoVars,
                   diffVars, lastScreenshotSentTime, nStarts,
                   captureVars>>

\* Linux: getUserMedia settles (lines 225-243, with setupLinuxMicProcessing,
\* lines 292-323, on success), then lines 269-285.  The microphone stream and
\* its AudioContext are locals; only the processor is kept.
StartMicResult ==
    /\ startCall.pc = "mic"
    /\ \E success \in BOOLEAN :
         /\ ev' = StartEvent(startCall.id, "mic", success)
         /\ IF success
            THEN /\ audioProcessor' = startCall.id
                 /\ resources' = [resources EXCEPT
                                    !.tracks = @ \cup {Track("mic", startCall.id)},
                                    !.contexts = @ \cup {Track("mic", startCall.id)},
                                    !.nodes = @ \cup {startCall.id}]
                 /\ audio' = [audio EXCEPT !.buffer[startCall.id] = <<>>]
            ELSE UNCHANGED <<audioProcessor, resources, audio>>
    /\ startCall' = IdleStart
    /\ screenshotInterval' = ScheduledHandle(startCall)
    /\ intervals' = ScheduledIntervals(startCall)
    /\ timeouts' = ScheduledTimeouts(startCall)
    /\ hist' = Started(startCall)
    /\ UNCHANGED <<clockVars, configVars, trackerVars, platform, mediaStream,
                   audioContext, videoVars, diffVars, lastScreenshotSentTime,
                   status, nStarts, captureVars>>

\* ------------------------------------------------------------- stopCapture
\* Lines 542-578.  clearInterval clears the one timer screenshotInterval
\* names; the pending setTimeout of line 284 has no handle and stays.
\* A slip: 'stop-macos-audio' invoked only while the capture is running.
StopInvokesHostIfRunning == platform = "darwin" /\ resources.macAudio

\* Lines 564-568: `if (isMacOS)` invokes 'stop-macos-audio'.
StopInvokesHost == platform = "darwin"

\* Nothing of a session is held: every handle stopCapture looks at is null.
NothingHeld ==
    /\ screenshotInterval = NULL
    /\ audioProcessor = NULL
    /\ audioContext = NULL
    /\ mediaStream = NULL
    /\ hiddenVideo = NoVideo
    /\ offscreenCanvas = <<>>
    /\ ~offscreenContext

stopCapture ==
    /\ intervals' = {t \in intervals : t.id # screenshotInterval}
    /\ screenshotInterval' = NULL
    /\ audioProcessor' = NULL
    /\ audioContext' = NULL
    /\ mediaStream' = NULL
    /\ resources' =
          [tracks |-> resources.tracks \ {Track("display", mediaStream)},
           contexts |-> resources.contexts \ {Track("loopback", audioContext)},
           nodes |-> resources.nodes \ {audioProcessor},
           macAudio |-> IF StopInvokesHost THEN FALSE ELSE resources.macAudio]
    /\ hiddenVideo' = NoVideo
    /\ videoReady' = FALSE
    /\ offscreenCanvas' = <<>>
    /\ offscreenContext' = FALSE
    /\ hist' = [hist EXCEPT !.stopped = (startCall.pc = "idle"), !.mode = "none"]
    /\ ev' = [Event("stop", 0, FALSE,
                    IF StopInvokesHost THEN "stopMacAudio" ELSE "none") EXCEPT
                 !.result = IF NothingHeld THEN "nothing" ELSE "released"]
    /\ UNCHANGED <<clockVars, configVars, trackerVars, platform, diffVars,
                   lastScreenshotSentTime, status, timeouts,
                   startVars, captureVars, audio>>

\* ------------------------------------------------------------ audio chunks
\* Samples are handled in units of SampleUnit samples: an input frame of
\* BUFFER_SIZE samples is FrameUnits units, a chunk ChunkUnits units.
SampleUnit == 32
FrameUnits == BUFFER_SIZE \div SampleUnit
ChunkUnits == samplesPerChunk \div SampleUnit

\* The k-th input frame of a source: its units, numbered along the source's
\* input.
InputFrame(k) == [i \in 1..FrameUnits |-> (k - 1) * FrameUnits + i]

\* A slip: the chunk taken from the end of the backlog.
SpliceFromEnd(backlog) ==
    [chunk |-> SubSeq(backlog, Len(backlog) - ChunkUnits + 1, Len(backlog)),
     rest |-> SubSeq(backlog, 1, Len(backlog) - ChunkUnits)]

\* audioBuffer.splice(0, samplesPerChunk): the chunk and what stays.
Splice(backlog) ==
    [chunk |-> SubSeq(backlog, 1, ChunkUnits),
     rest |-> SubSeq(backlog, ChunkUnits + 1, Len(backlog))]

\* A slip: the loop entered only with two chunks in the backlog.
DrainConditionTwoChunks(backlog) == Len(backlog) >= 2 * ChunkUnits

\* audioBuffer.length >= samplesPerChunk.
DrainCondition(backlog) == Len(backlog) >= ChunkUnits

\* One pass of `while (audioBuffer.length >= samplesPerChunk)` up to its
\* await (lines 306-314 and 339-347): with a full chunk in the backlog the
\* chunk is spliced off and handed to 'send-audio-content'; arrived is 1 in
\* the pass an onaudioprocess callback starts with.
DrainStep(p, backlog, loops, arrived) ==
    IF DrainCondition(backlog)
    THEN /\ audio' = [audio EXCEPT !.buffer[p] = Splice(backlog).rest,
                                   !.sent[p] = Append(@, Splice(backlog).chunk),
                                   !.loops[p] = loops + 1,
                                   !.received[p] = @ + arrived,
                                   !.frames = @ + arrived]
         /\ hist' = [hist EXCEPT !.audioChunks = @ + 1]
    ELSE /\ audio' = [audio EXCEPT !.buffer[p] = backlog,
                                   !.loops[p] = loops,
                                   !.received[p] = @ + arrived,
                                   !.frames = @ + arrived]
         /\ UNCHANGED hist

\* onaudioprocess of a connected processor: lines 301-304 and 334-337, then
\* the loop up to its first await.
OnAudioProcess ==
    /\ audio.frames < MaxAudioFrames
    /\ \E p \in resources.nodes :
         DrainStep(p, audio.buffer[p] \o InputFrame(audio.received[p] + 1),
                   audio.loops[p], 1)
    /\ ev' = NoEvent
    /\ UNCHANGED <<clockVars, configVars, trackerVars, platform, mediaVars,
                   videoVars, diffVars, lastScreenshotSentTime, status,
                   timerVars, startVars, captureVars>>

\* `await ipcRenderer.invoke('send-audio-content')` settles in one suspended
\* drain loop: when it returns the loop tests its condition again, when it
\* rejects the callback ends with that exception.
AudioSendDone ==
    /\ \E p \in StartIds, returns \in BOOLEAN :
         /\ audio.loops[p] > 0
         /\ IF returns
            THEN DrainStep(p, audio.buffer[p], audio.loops[p] - 1, 0)
            ELSE /\ audio' = [audio EXCEPT !.loops[p] = @ - 1, !.rejected[p] = TRUE]
                 /\ UNCHANGED hist
    /\ ev' = NoEvent
    /\ UNCHANGED <<clockVars, configVars, trackerVars, platform, mediaVars,
                   videoVars, diffVars, lastScreenshotSentTime, status,
                   timerVars, startVars, captureVars>>

\* --------------------------------------------------------------- the clock
\* Time passes when no timer is due.
SessionTick ==
    /\ \A t \in intervals \cup timeouts : t.due > now
    /\ ticks < MaxSessionTicks
    /\ now' = now + TickMs
    /\ ticks' = ticks + 1
    /\ ev' = NoEvent
    /\ UNCHANGED <<trackerVars, configVars, platform, mediaVars, videoVars,
                   diffVars, lastScreenshotSentTime, status, timerVars,
                   startVars, captureVars, audio, hist>>

\* ------------------------------------------------------------------- Init
NoRet ==
    [op |-> "none", at |-> 0, value |-> 0, flag |-> FALSE,
     fresh |-> FALSE, audioFresh |-> FALSE, held |-> FALSE,
     width |-> 0, height |-> 0, text |-> <<>>, invoked |-> FALSE]

SessionInit ==
    /\ mediaStream = NULL
    /\ screenshotInterval = NULL
    /\ audioContext = NULL
    /\ audioProcessor = NULL
    /\ hiddenVideo = NoVideo
    /\ videoReady = FALSE
    /\ offscreenCanvas = <<>>
    /\ offscreenContext = FALSE
    /\ diffCanvas = FALSE
    /\ lastSentDiffData = NULL
    /\ lastScreenshotSentTime = 0
    /\ status = "idle"
    /\ intervals = {}
    /\ timeouts = {}
    /\ startCall = IdleStart
    /\ nStarts = 0
    /\ cap = [c \in CapIds |-> IdleCap]
    /\ nCaps = 0
    /\ ev = NoEvent
    /\ resources = [tracks |-> {}, contexts |-> {}, nodes |-> {}, macAudio |-> FALSE]
    /\ audio = [buffer |-> [p \in StartIds |-> <<>>], loops |-> [p \in StartIds |-> 0],
                received |-> [p \in StartIds |-> 0], sent |-> [p \in StartIds |-> <<>>],
                rejected |-> [p \in StartIds |-> FALSE],
                frames |-> 0]
    /\ hist = [stopped |-> FALSE, mode |-> "none", lastTxFrame |-> NULL,
               lastAutoSend |-> NULL, audioChunks |-> 0]

\* Rate-limit settings of the sessions explored: throttling on with a
\* threshold of floor(688 * 75 / 100) = 516 tokens, which two small images
\* or one large image reach.
SessionSettings == {Setting("true", 688, UNSET)}

\* The state after the module is loaded.  (The trackAudioTokens timer of
\* lines 130-132 is the call TkTrackAudioTokens of the tracker's own
\* specification below.)
Init ==
    /\ now = Epoch
    /\ ticks = 0
    /\ tokenTracker = [tokens |-> <<>>, audioStartTime |-> NULL]
    /\ settings \in SessionSettings
    /\ localStorage = StorageOf(settings)
    /\ events = <<>>
    /\ ret = NoRet
    /\ platform \in Platforms
    /\ SessionInit

Next ==
    \/ startCapture
    \/ StartMacAudioResult
    \/ StartDisplayResult
    \/ StartMicResult
    \/ stopCapture
    \/ IntervalFires
    \/ TimeoutFires
    \/ captureManualScreenshot
    \/ VideoLoads
    \/ PlayResolves
    \/ PlayRejects
    \/ EncodeDone
    \/ SendResult
    \/ SessionTick

Spec == Init /\ [][Next]_vars

\* ===================================== the audio path of a session on its own
\* The platforms whose renderer chunks audio itself.
AudioInit ==
    /\ now = Epoch
    /\ ticks = 0
    /\ tokenTracker = [tokens |-> <<>>, audioStartTime |-> NULL]
    /\ settings = Setting("false", 345, UNSET)
    /\ localStorage = StorageOf(settings)
    /\ events = <<>>
    /\ ret = NoRet
    /\ platform \in {"linux", "win32"}
    /\ SessionInit

AudioNext ==
    \/ startCapture
    \/ StartDisplayResult
    \/ StartMicResult
    \/ stopCapture
    \/ OnAudioProcess
    \/ AudioSendDone

SpecAudio == AudioInit /\ [][AudioNext]_vars

\* ================================================= the tracker on its own
Tick(d) ==
    /\ ticks < MaxTicks
    /\ now' = now + d
    /\ ticks' = ticks + 1

\* ------------------------------------- the tracker's operations, one by one
TkAddTokens ==
    /\ Len(events) < MaxEvents
    /\ \E d \in Dims :
         LET n == calculateImageTokens(d[1], d[2]) IN
         /\ tokenTracker' = addTokens(tokenTracker, n, "image", now)
         /\ events' = Append(events, TokenEvent(now, n, "image"))
         /\ ret' = [ret EXCEPT !.op = "addTokens", !.at = now, !.value = n,
                                !.flag = FALSE, !.fresh = FALSE]
    /\ UNCHANGED <<clockVars, configVars, sessionVars>>

TkTrackAudioTokens ==
    /\ Len(events) < MaxEvents
    /\ tokenTracker' = trackAudioTokens(tokenTracker, now)
    /\ LET first == tokenTracker.audioStartTime = NULL
           n == IF first THEN 0 ELSE AudioTokens(tokenTracker, now) IN
       /\ events' = IF n > 0 THEN Append(events, TokenEvent(now, n, "audio")) ELSE events
       /\ ret' = [ret EXCEPT !.op = "trackAudioTokens", !.at = now, !.value = n,
                              !.flag = first, !.fresh = (ret.fresh /\ n = 0),
                              !.audioFresh = FALSE]
    /\ UNCHANGED <<clockVars, configVars, sessionVars>>

TkGetTokensInLastMinute ==
    /\ tokenTracker' = TrackerAfterQuery(tokenTracker, now)
    /\ ret' = [ret EXCEPT !.op = "getTokensInLastMinute", !.at = now,
                           !.value = getTokensInLastMinute(tokenTracker, now),
                           !.flag = FALSE]
    /\ UNCHANGED <<clockVars, configVars, events, sessionVars>>

TkShouldThrottle ==
    /\ tokenTracker' = TrackerAfterThrottle(tokenTracker, localStorage, now)
    /\ ret' = [ret EXCEPT !.op = "shouldThrottle", !.at = now,
                           !.value = getTokensInLastMinute(tokenTracker, now),
                           !.flag = shouldThrottle(tokenTracker, localStorage, now)]
    /\ UNCHANGED <<clockVars, configVars, events, sessionVars>>

TkReset ==
    /\ tokenTracker' = reset(tokenTracker)
    /\ events' = <<>>
    /\ ret' = [ret EXCEPT !.op = "reset", !.at = now, !.value = 0, !.flag = FALSE,
                           !.fresh = TRUE, !.audioFresh = TRUE,
                           !.held = (/\ tokenTracker.tokens # <<>>
                                     /\ tokenTracker.audioStartTime # NULL)]
    /\ UNCHANGED <<clockVars, configVars, sessionVars>>

\* 20 ms (less than the 31.25 ms one audio token takes), one second, and one
\* second short of a minute.
TrackerSteps == {20, 1000, WindowMs - 1000}

TkTick ==
    /\ \E d \in TrackerSteps : Tick(d)
    /\ UNCHANGED <<trackerVars, configVars, sessionVars>>

\* The tracker as the module creates it.
TrackerInit ==
    /\ now = Epoch
    /\ ticks = 0
    /\ tokenTracker = [tokens |-> <<>>, audioStartTime |-> NULL]
    /\ settings \in AllSettings
    /\ localStorage = StorageOf(settings)
    /\ events = <<>>
    /\ ret = NoRet
    /\ platform = "linux"
    /\ SessionInit

TrackerNext ==
    \/ TkAddTokens
    \/ TkTrackAudioTokens
    \/ TkGetTokensInLastMinute
    \/ TkShouldThrottle
    \/ TkReset
    \/ TkTick

SpecTracker == TrackerInit /\ [][TrackerNext]_vars

\* ===================================== calculateImageTokens on its own
\* Largest number of 768-pixel tiles along one axis of the images tried.
MaxTiles == 3

\* Image sides: around the small-image limit, and around each multiple of
\* the tile size up to MaxTiles tiles.
Sides ==
    {1, SMALL_IMAGE_MAX - 1, SMALL_IMAGE_MAX, SMALL_IMAGE_MAX + 1, 800}
        \cup {k * TILE_SIZE + d : k \in 1..MaxTiles, d \in {-1, 0, 1}}

ImgCalculateImageTokens ==
    /\ \E w \in Sides, h \in Sides :
         ret' = [ret EXCEPT !.op = "calculateImageTokens", !.at = now,
                            !.width = w, !.height = h,
                            !.value = calculateImageTokens(w, h)]
    /\ UNCHANGED <<clockVars, configVars, tokenTracker, events, sessionVars>>

ImageInit ==
    /\ TrackerInit
    /\ settings = Setting("unset", UNSET, UNSET)

ImageNext == ImgCalculateImageTokens

SpecImage == ImageInit /\ [][ImageNext]_vars

\* ============================================ sendTextMessage on its own
\* Longest text tried.
MaxTextLen == 4

\* Texts: strings (sequences of characters) of a blank, a tab and a letter.
TextChars == {" ", "\t", "a"}
Texts == UNION {[1..n -> TextChars] : n \in 0..MaxTextLen}

\* String.prototype.trim(): white space removed at both ends.
IsWhiteSpace(c) == c \in {" ", "\t", "\n", "\r"}
RECURSIVE trimStart(_)
trimStart(text) ==
    IF text # <<>> /\ IsWhiteSpace(Head(text)) THEN trimStart(Tail(text)) ELSE text
RECURSIVE trimEnd(_)
trimEnd(text) ==
    IF text # <<>> /\ IsWhiteSpace(text[Len(text)])
    THEN trimEnd(SubSeq(text, 1, Len(text) - 1))
    ELSE text
trim(text) == trimEnd(trimStart(text))

\* A slip: the text tested without trimming.
RejectsTextUntrimmed(text) == Len(text) = 0

\* Line 581: !text || text.trim().length === 0.
RejectsText(text) == text = <<>> \/ Len(trim(text)) = 0

\* sendTextMessage(text), lines 580-598, with what 'send-text-message'
\* does when invoked: it answers success or failure, or the invoke throws.
sendTextMessage ==
    /\ \E text \in Texts, answer \in {"success", "failure", "throws"} :
         IF RejectsText(text)
         THEN ret' = [ret EXCEPT !.op = "sendTextMessage", !.at = now, !.text = text,
                                 !.invoked = FALSE, !.flag = FALSE]
         ELSE ret' = [ret EXCEPT !.op = "sendTextMessage", !.at = now, !.text = text,
                                 !.invoked = TRUE, !.flag = (answer = "success")]
    /\ UNCHANGED <<clockVars, configVars, tokenTracker, events, sessionVars>>

TextInit ==
    /\ TrackerInit
    /\ settings = Setting("unset", UNSET, UNSET)

TextNext == sendTextMessage

SpecText == TextInit /\ [][TextNext]_vars

\* ==================================================================== claims
\* The token events of the history that a query at instant t counts when
\* "not older than 60 seconds" is read as t - timestamp <= 60 s.
NotOlderThanWindow(t) == SelectSeq(events, LAMBDA e : t - e.timestamp <= WindowMs)

\* C6: a query returns exactly the sum of the events that are not older than
\* 60 s (now - timestamp <= 60 s), and no event older than 60 s stays in the
\* tracker after the query.
C6_SumOfEventsNotOlderThan60s ==
    ret.op = "getTokensInLastMinute" =>
        /\ ret.value = SumCounts(NotOlderThanWindow(ret.at))
        /\ \A i \in 1..Len(tokenTracker.tokens) :
               ret.at - tokenTracker.tokens[i].timestamp <= WindowMs

\* C7: shouldThrottle() is false whenever throttling is not enabled, and
\* when enabled it is true exactly when the tokens of the last minute are
\* >= floor(maxTokensPerMinute * throttlePercent / 100).
C7_ShouldThrottle ==
    ret.op = "shouldThrottle" =>
        ret.flag = (/\ settings.throttleTokens = "true"
                    /\ SumCounts(LiveEvents(ret.at)) >= ConfiguredThreshold)

\* shouldThrottle() answered true with the tokens exactly at the threshold.
C7_Witness ==
    /\ ret.op = "shouldThrottle"
    /\ ret.flag
    /\ ret.value = ConfiguredThreshold
    /\ settings.maxTokensPerMin = 345

\* C3: an automated capture attempt made while shouldThrottle() is true (the
\* stream is active and the live tokens are at or over the threshold) ends as
\* a throttle skip: no call is left in flight, so nothing is transmitted,
\* the status is unchanged, the stream and the timer handle stay, and every
\* interval timer is still armed with its period.
C3_ThrottledCaptureSkips ==
    [][(ev'.op = "capture" /\ ~ev'.manual /\ mediaStream # NULL /\ OverBudget(now)) =>
          /\ ev'.outcome = "throttled"
          /\ cap' = cap
          /\ status' = status
          /\ mediaStream' = mediaStream
          /\ screenshotInterval' = screenshotInterval
          /\ {<<t.id, t.period>> : t \in intervals'} = {<<t.id, t.period>> : t \in intervals}]_vars

\* An automated capture was skipped by the throttle while a timer is armed.
C3_Witness ==
    /\ ev.op = "capture"
    /\ ~ev.manual
    /\ ev.outcome = "throttled"
    /\ OverBudget(now)
    /\ intervals # {}

\* C4: an image transmission that comes back as a failure adds no token
\* event, leaves the last-send timestamp alone and does not stop the session:
\* stream, status, timer handle and every armed timer are as before.
C4_FailedSendChangesNothing ==
    [][(ev'.op = "send" /\ ev'.result = "failure") =>
          /\ tokenTracker' = tokenTracker
          /\ events' = events
          /\ lastScreenshotSentTime' = lastScreenshotSentTime
          /\ lastSentDiffData' = lastSentDiffData
          /\ intervals' = intervals
          /\ timeouts' = timeouts
          /\ screenshotInterval' = screenshotInterval
          /\ mediaStream' = mediaStream
          /\ hiddenVideo' = hiddenVideo
          /\ status' = status]_vars

\* A transmission failed in a session whose periodic timer is armed.
C4_Witness ==
    /\ ev.op = "send"
    /\ ev.result = "failure"
    /\ ev.outcome = "sendFailed"
    /\ mediaStream # NULL
    /\ \E t \in intervals : t.id = screenshotInterval

\* How an automated call that reached the change-detection gate can end.
GateOutcomes == {"diffSkip", "intervalSkip", "toBlob"}

\* C1: an automated capture that reaches the change-detection gate before any
\* automated frame of the session was transmitted goes on to toBlob, and an
\* automated capture whose frame has 0 changed pixels against the session's
\* last transmitted automated frame initiates no transmission.
C1_FirstSentIdenticalNotResent ==
    [][/\ (/\ ev'.op \in {"capture", "play"}
            /\ ~ev'.manual
            /\ ev'.outcome \in GateOutcomes
            /\ hist.lastTxFrame = NULL) => ev'.outcome = "toBlob"
       /\ \A c \in CapIds :
             (cap[c].pc = "encode" /\ ~cap[c].isManual /\ cap'[c].pc = "send")
                 => ~cap[c].duplicate]_vars

\* C2 as stated: no manual capture made with an active stream ends without a
\* transmission attempt.
C2_ManualAlwaysAttempts ==
    ~(/\ ev.manual
      /\ mediaStream # NULL
      /\ ev.outcome \in {"notReady", "typeError", "encodeFailed"})

\* C2: with an active stream a manual capture is never skipped by the
\* throttle, the change-detection gate or the minimum send interval: it
\* awaits play() when it creates the video, returns when the video is not
\* ready, throws when the canvas context does not exist yet, and otherwise
\* hands its frame to toBlob; after play() it hands its frame to toBlob
\* unless stopCapture unloaded its video meanwhile.
C2_ManualBypassesGates ==
    [][(ev'.manual /\ ev'.op \in {"capture", "play"}) =>
          /\ ev'.outcome \notin {"throttled", "diffSkip", "intervalSkip"}
          /\ (ev'.op = "capture" /\ mediaStream # NULL) =>
                ev'.outcome = IF hiddenVideo = NoVideo THEN "awaitPlay"
                              ELSE IF ~videoReady THEN "notReady"
                              ELSE IF ~offscreenContext THEN "typeError"
                              ELSE "toBlob"
          /\ ev'.outcome = "toBlob" =>
                /\ cap'[ev'.c].pc = "encode"
                /\ cap'[ev'.c].isManual
          /\ ev'.op = "play" =>
                ev'.outcome = IF hiddenVideo.id = ev'.c THEN "toBlob" ELSE "playRejected"]_vars

\* A manual capture went to toBlob while shouldThrottle() was true.
C2_Witness ==
    /\ ev.op = "capture"
    /\ ev.manual
    /\ ev.outcome = "toBlob"
    /\ OverBudget(now)
    /\ cap[ev.c].pc = "encode"

\* C5: in a session started in manual mode no interval timer is active and
\* no automated capture attempt occurs.
C5_ManualModeHasNoAutomatedCapture ==
    hist.mode = "manual" =>
        /\ intervals = {}
        /\ ~(ev.op = "capture" /\ ~ev.manual)

\* C8: a transmission that completes with success appends exactly one image
\* token event, of calculateImageTokens(width, height) of the frame sent, and
\* records the instant as the last-send timestamp.
C8_SuccessCountsOnce ==
    [][(ev'.op = "send" /\ ev'.result = "success") =>
          /\ events' = Append(events,
                 TokenEvent(now, calculateImageTokens(cap[ev'.c].dims[1], cap[ev'.c].dims[2]),
                            "image"))
          /\ tokenTracker'.tokens = cleanOldTokens(events', now)
          /\ lastScreenshotSentTime' = now]_vars

\* C9: an automated transmission is initiated at least MIN_SEND_INTERVAL_MS
\* after the session's previous automated transmission was initiated.
C9_MinSendInterval ==
    [][(/\ ev'.op = "encode"
        /\ ev'.outcome = "sending"
        /\ ~ev'.manual
        /\ hist.lastAutoSend # NULL) => now - hist.lastAutoSend >= MIN_SEND_INTERVAL_MS]_vars

\* C10: from the return of stopCapture to the next startCapture no image and
\* no audio chunk transmission is initiated, and no stream track, audio
\* context or audio processor of the session is still live.
C10_NothingAfterStop ==
    [][hist.stopped =>
          /\ ~(ev'.op = "encode" /\ ev'.outcome = "sending")
          /\ hist'.audioChunks = hist.audioChunks
          /\ resources.tracks = {}
          /\ resources.contexts = {}
          /\ resources.nodes = {}
          /\ ~resources.macAudio]_vars

\* The module's variables (the timers it has armed included).
ModuleState ==
    <<tokenTracker, mediaStream, screenshotInterval, audioContext, audioProcessor,
      hiddenVideo, videoReady, offscreenCanvas, offscreenContext, diffCanvas,
      lastSentDiffData, lastScreenshotSentTime, status, intervals, timeouts, cap>>

C12_StartResetsTrackerAndDiffState ==
    [][nStarts' = nStarts + 1 =>
          /\ tokenTracker'.tokens = <<>>
          /\ tokenTracker'.audioStartTime = NULL
          /\ lastSentDiffData' = NULL
          /\ lastScreenshotSentTime' = 0]_vars

Called(op) == ret'.op = op /\ ticks' = ticks

\* C14: with nothing added since reset(), getTokensInLastMinute() returns 0;
\* the first trackAudioTokens() call after reset() adds no token event and
\* sets the audio window start to the instant of the call.
C14_ResetRearms ==
    [][/\ (Called("getTokensInLastMinute") /\ ret.fresh) =>
            /\ ret'.value = 0
            /\ tokenTracker'.tokens = <<>>
       /\ (Called("trackAudioTokens") /\ ret.audioFresh) =>
            /\ tokenTracker'.tokens = tokenTracker.tokens
            /\ events' = events
            /\ tokenTracker'.audioStartTime = now]_vars

\* The first trackAudioTokens() after a reset() of a tracker that held token
\* events and an audio window start, later than that reset.
C14_Witness ==
    /\ ret.op = "trackAudioTokens"
    /\ ret.flag
    /\ ret.held
    /\ ret.value = 0
    /\ tokenTracker.audioStartTime = now
    /\ now > Epoch

\* C20 as stated: a trackAudioTokens() call that is not the first emits an
\* audio event of floor(elapsedSeconds * 32) exactly when that is > 0, and
\* sets the audio window start to the instant of the call either way.
C20_WindowStartAlwaysReset ==
    [][(Called("trackAudioTokens") /\ tokenTracker.audioStartTime # NULL) =>
          /\ events' = IF AudioTokens(tokenTracker, now) > 0
                        THEN Append(events, TokenEvent(now, AudioTokens(tokenTracker, now), "audio"))
                        ELSE events
          /\ tokenTracker'.audioStartTime = now]_vars

\* C20: a trackAudioTokens() call that is not the first emits one audio event
\* of floor(elapsedSeconds * 32) and sets the audio window start to the
\* instant of the call when that value is > 0; when it is 0 it emits nothing
\* and leaves the audio window start where it was.
C20_WindowStartResetOnEmit ==
    [][(Called("trackAudioTokens") /\ tokenTracker.audioStartTime # NULL) =>
          LET n == ((now - tokenTracker.audioStartTime) * 32) \div 1000 IN
          IF n > 0
          THEN /\ events' = Append(events, TokenEvent(now, n, "audio"))
               /\ tokenTracker'.tokens = cleanOldTokens(events', now)
               /\ tokenTracker'.audioStartTime = now
          ELSE /\ events' = events
               /\ tokenTracker' = tokenTracker]_vars

\* trackAudioTokens() was called 20 ms after the audio window start: nothing
\* was emitted and the window start stayed.
C20_Witness ==
    /\ ret.op = "trackAudioTokens"
    /\ ~ret.flag
    /\ ret.value = 0
    /\ ret.at = now
    /\ tokenTracker.audioStartTime = now - 20

\* ceil(n / 768): the least k with k * 768 >= n.
TilesAlong(n) == CHOOSE k \in 0..n : k * 768 >= n /\ \A j \in 0..(k - 1) : j * 768 < n

\* C15: calculateImageTokens(w, h) is 258 when w <= 384 and h <= 384, and
\* ceil(w / 768) * ceil(h / 768) * 258 otherwise.
C15_CalculateImageTokens ==
    ret.op = "calculateImageTokens" =>
        ret.value = IF ret.width <= 384 /\ ret.height <= 384 THEN 258
                    ELSE TilesAlong(ret.width) * TilesAlong(ret.height) * 258

\* calculateImageTokens(768, 1536) returned 516.
C15_Witness ==
    /\ ret.op = "calculateImageTokens"
    /\ ret.width = 768
    /\ ret.height = 1536
    /\ ret.value = 516

\* C16: sendTextMessage with an empty text, or a text of white space only,
\* returns a failure and does not invoke 'send-text-message'.
C16_EmptyTextRejectedLocally ==
    (/\ ret.op = "sendTextMessage"
     /\ \A i \in 1..Len(ret.text) : ret.text[i] \in {" ", "\t"}) =>
        /\ ~ret.flag
        /\ ~ret.invoked

\* sendTextMessage was called with a blank and a tab and invoked nothing.
C16_Witness ==
    /\ ret.op = "sendTextMessage"
    /\ ret.text = <<" ", "\t">>
    /\ ~ret.flag
    /\ ~ret.invoked

\* The units first..last of a source's input, in order.
InputSlice(first, last) == [i \in 1..(last - first + 1) |-> first + i - 1]

\* C17: for every audio source the chunks handed to 'send-audio-content'
\* are, in order of send initiation, the consecutive chunk-size slices of
\* the input frames concatenated in arrival order, and the backlog is the
\* rest of that input: nothing is dropped, duplicated, merged or reordered.
C17_ChunksAreConsecutiveSlices ==
    \A p \in StartIds :
        /\ \A j \in 1..Len(audio.sent[p]) :
              audio.sent[p][j] = InputSlice((j - 1) * ChunkUnits + 1, j * ChunkUnits)
        /\ audio.buffer[p] =
              InputSlice(Len(audio.sent[p]) * ChunkUnits + 1, audio.received[p] * FrameUnits)

\* A callback arrived while an earlier callback's drain loop was suspended on
\* its send: two loops of one source are suspended, two chunks were sent.
C17_Witness ==
    \E p \in StartIds :
        /\ audio.loops[p] >= 2
        /\ audio.received[p] >= 2
        /\ Len(audio.sent[p]) >= 2

C19_FingerprintChangesOnlyPastGates ==
    [][/\ lastSentDiffData' # lastSentDiffData =>
            /\ ev'.op \in {"capture", "play"}
            /\ ~ev'.manual
            /\ ev'.outcome = "toBlob"
            /\ lastSentDiffData # NULL
            /\ ~ChangeBelowThreshold(lastSentDiffData', lastSentDiffData)
            /\ now - lastScreenshotSentTime >= MIN_SEND_INTERVAL_MS
       /\ (\/ ev'.manual
           \/ ev'.outcome \in {"throttled", "diffSkip", "intervalSkip"}) =>
            lastSentDiffData' = lastSentDiffData]_vars

\* A manual capture went to toBlob after an automated frame of the session
\* had been transmitted, and the stored fingerprint is what it was.
C19_Witness ==
    /\ ev.op \in {"capture", "play"}
    /\ ev.manual
    /\ ev.outcome = "toBlob"
    /\ hist.lastTxFrame # NULL
    /\ lastSentDiffData = NULL

\* The captureScreenshot calls that have started and not yet finished.
InFlight == {c \in CapIds : cap[c].pc # "idle"}

\* C21: at most one captureScreenshot call is in flight at any time: no call
\* from the interval timer, the delayed first capture or a manual trigger
\* starts while an earlier call is suspended at play(), toBlob or the send.
C21_AtMostOneCaptureInFlight == Cardinality(InFlight) <= 1

\* C22: when stopCapture returns, no interval timer armed by an earlier
\* startCapture is still armed.
C22_NoIntervalArmedAfterStop ==
    [][ev'.op = "stop" => intervals' = {}]_vars

\* How a segment of a captureScreenshot call ends once it has reached the
\* drawImage of line 391.
GrabOutcomes == {"typeError", "diffSkip", "intervalSkip", "toBlob"}

\* C23: whenever a captureScreenshot call reaches the drawImage of line 391,
\* the hidden video, the offscreen canvas and its 2d context are all set.
C23_GrabFindsSurfacesInitialized ==
    [][(ev'.op \in {"capture", "play"} /\ ev'.outcome \in GrabOutcomes) =>
          /\ hiddenVideo' # NoVideo
          /\ offscreenCanvas' # <<>>
          /\ offscreenContext']_vars

\* How a segment of a captureScreenshot call ends when the attempt is skipped:
\* lines 357, 360-363, 386-389, 452-458 and 460-464.
SkipOutcomes == {"noStream", "throttled", "notReady", "diffSkip", "intervalSkip"}

\* C24: a capture attempt that is skipped (no stream, throttled, video not
\* ready, change below the threshold, minimum interval not met) leaves its
\* call finished with nothing handed to toBlob or to the host, every other
\* call where it was, and the sum of the live token events, the token
\* history, the stored fingerprint and the last-send timestamp unchanged.
C24_SkippedCaptureChangesNothing ==
    [][(ev'.op \in {"capture", "play"} /\ ev'.outcome \in SkipOutcomes) =>
          /\ cap'[ev'.c] = IdleCap
          /\ \A d \in CapIds \ {ev'.c} : cap'[d] = cap[d]
          /\ getTokensInLastMinute(tokenTracker', now')
                = getTokensInLastMinute(tokenTracker, now)
          /\ events' = events
          /\ hist' = hist
          /\ lastSentDiffData' = lastSentDiffData
          /\ lastScreenshotSentTime' = lastScreenshotSentTime]_vars

\* An automated capture was skipped by the throttle after an image had been
\* sent: live tokens are counted and the last-send timestamp is set.
C24_Witness ==
    /\ ev.op = "capture"
    /\ ev.outcome = "throttled"
    /\ cap[ev.c] = IdleCap
    /\ getTokensInLastMinute(tokenTracker, now) > 0
    /\ lastScreenshotSentTime # 0

====
